---------------------------- MODULE Spec2Model ----------------------------
(***************************************************************************)
(* cutplace.ranges.Range: the constructor (the range compiler), validate() *)
(* and __str__() of src/cutplace/ranges.py.                                *)
(*                                                                         *)
(* A text is a sequence of characters.  The characters are the strings of  *)
(* Alphabet; a symbolic name and a quoted character are one element each   *)
(* ("cr", "'A'").  tokenize.generate_tokens is modelled as the tokenizer   *)
(* the module was written for: a text without a trailing line end gives    *)
(* its tokens followed by ENDMARKER, with no implicit NEWLINE token.       *)
(* Optional values (None in Python) are sequences of length 0 or 1.        *)
(***************************************************************************)
EXTENDS Integers, Sequences, FiniteSets, TLC

\* ------------------------------------------------------------ bounds ----
MaxLen == 4          \* longest text given to the constructor
MaxDefaultLen == 4   \* longest default given to the constructor
ProbeSpan == 2       \* validate is called with -ProbeSpan .. ProbeSpan and
                     \* with the values next to every bound of every item

\* ---------------------------------------------------------- optionals ---
None == <<>>
Some(x) == <<x>>
IsNone(o) == o = <<>>
Val(o) == o[1]

\* --------------------------------------------------------- characters ---
\* the one-character ellipsis U+2026
ELLIPSIS == "U+2026"
Digits == {"0", "1", "2", "3", "4", "5", "6", "7", "8", "9"}
NameAtoms == {"cr", "None"}
QuotedAtoms == {"'A'"}
Whitespace == {" "}
Alphabet == {"1", "2", ".", ":", "-", ",", " ", "cr", "'A'"}

DigitValue(c) ==
    CASE c = "0" -> 0 [] c = "1" -> 1 [] c = "2" -> 2 [] c = "3" -> 3
      [] c = "4" -> 4 [] c = "5" -> 5 [] c = "6" -> 6 [] c = "7" -> 7
      [] c = "8" -> 8 [] c = "9" -> 9

DigitChar(d) ==
    CASE d = 0 -> "0" [] d = 1 -> "1" [] d = 2 -> "2" [] d = 3 -> "3"
      [] d = 4 -> "4" [] d = 5 -> "5" [] d = 6 -> "6" [] d = 7 -> "7"
      [] d = 8 -> "8" [] d = 9 -> "9"

\* the symbolic names of errors.NAME_TO_ASCII_CODE_MAP; "cr" is carriage return
NAME_TO_ASCII_CODE_MAP == [n \in {<<"cr">>} |-> 13]

\* ord() of the character between the quotes of a quoted atom
Ord(atom) == CASE atom = "'A'" -> 65

\* len() of the source text of a quoted atom
StringLen(value) == CASE value = <<"'A'">> -> 3

\* ----------------------------------------------- str methods of the text
\* text.replace('...', ELLIPSIS): left to right, non-overlapping
RECURSIVE Replace(_)
Replace(s) ==
    IF Len(s) = 0 THEN <<>>
    ELSE IF Len(s) >= 3 /\ s[1] = "." /\ s[2] = "." /\ s[3] = "."
         THEN <<ELLIPSIS>> \o Replace(SubSeq(s, 4, Len(s)))
         ELSE <<s[1]>> \o Replace(Tail(s))

\* Strip without the strip: the text is truthy, not the stripped text
StripOmitted(s) == Len(s) > 0

\* text.strip() is truthy: some character is not whitespace
Strip(s) == \E i \in 1..Len(s) : s[i] \notin Whitespace

\* ------------------------------------------------------------- lexer ----
Token(type, value) == [type |-> type, value |-> value]

\* the first index >= i of s that is not in the character class cls
RECURSIVE RunEnd(_, _, _)
RunEnd(s, i, cls) ==
    IF i <= Len(s) /\ s[i] \in cls THEN RunEnd(s, i + 1, cls) ELSE i

\* tokenize's pseudo-token match at index i: <<token, index after it>>.
\* Number is tried before Name, and Pointfloat before Intnumber.
Scan(s, i) ==
    LET c == s[i]
        d == RunEnd(s, i, Digits)
        f == RunEnd(s, d + 1, Digits)
        w == RunEnd(s, i, Digits \cup NameAtoms)
    IN  CASE c \in Digits ->
               IF d <= Len(s) /\ s[d] = "."
               THEN <<Token("NUMBER", SubSeq(s, i, f - 1)), f>>
               ELSE <<Token("NUMBER", SubSeq(s, i, d - 1)), d>>
          [] c = "." ->
               IF i + 1 <= Len(s) /\ s[i + 1] \in Digits
               THEN <<Token("NUMBER", SubSeq(s, i, f - 1)), f>>
               ELSE <<Token("OP", <<c>>), i + 1>>
          [] c \in NameAtoms -> <<Token("NAME", SubSeq(s, i, w - 1)), w>>
          [] c \in QuotedAtoms -> <<Token("STRING", <<c>>), i + 1>>
          [] c = ELLIPSIS -> <<Token("ERRORTOKEN", <<c>>), i + 1>>
          [] OTHER -> <<Token("OP", <<c>>), i + 1>>

RECURSIVE LexFrom(_, _)
LexFrom(s, i) ==
    IF i > Len(s) THEN <<>>
    ELSE IF s[i] \in Whitespace THEN LexFrom(s, i + 1)
    ELSE <<Scan(s, i)[1]>> \o LexFrom(s, Scan(s, i)[2])

\* tokenize.generate_tokens(io.StringIO(text).readline) for a one-line text
\* that is not blank: leading whitespace is indentation.
generate_tokens(s) ==
    IF s[1] \in Whitespace
    THEN <<Token("INDENT", <<" ">>)>> \o LexFrom(s, 1)
         \o <<Token("DEDENT", <<>>), Token("ENDMARKER", <<>>)>>
    ELSE LexFrom(s, 1) \o <<Token("ENDMARKER", <<>>)>>

is_eof_token(t) == t.type = "ENDMARKER"
is_comma_token(t) == t.type = "OP" /\ t.value = <<",">>

\* int(next_value, 10): None stands for ValueError
RECURSIVE Decimal(_)
Decimal(v) ==
    IF Len(v) = 0 THEN 0
    ELSE 10 * Decimal(SubSeq(v, 1, Len(v) - 1)) + DigitValue(v[Len(v)])

IntOf(v) == IF \E i \in 1..Len(v) : v[i] = "." THEN None ELSE Some(Decimal(v))


\* ------------------------------------------------------ range items -----
\* Range._item_contains(item, value), value possibly None
_item_contains(item, value) ==
    IF IsNone(value) THEN FALSE
    ELSE LET lower == item[1]
             upper == item[2]
         IN  IF IsNone(lower)
             THEN IF IsNone(upper) THEN TRUE ELSE Val(value) <= Val(upper)
             ELSE IF IsNone(upper) THEN Val(value) >= Val(lower)
             ELSE Val(value) >= Val(lower) /\ Val(value) <= Val(upper)

\* Range._items_overlap(some, other)
_items_overlap(some, other) ==
    _item_contains(some, other[1]) \/ _item_contains(some, other[2])

\* "%s" % number
RECURSIVE NatStr(_)
NatStr(n) ==
    IF n < 10 THEN <<DigitChar(n)>> ELSE NatStr(n \div 10) \o <<DigitChar(n % 10)>>

IntStr(n) == IF n < 0 THEN <<"-">> \o NatStr(-n) ELSE NatStr(n)

\* _repr_item with the colon of "x:" lost
_repr_item_without_open_end(item) ==
    LET lower == item[1]
        upper == item[2]
    IN  IF IsNone(lower) THEN <<":">> \o IntStr(Val(upper))
        ELSE IF IsNone(upper) THEN IntStr(Val(lower))
        ELSE IF lower = upper THEN IntStr(Val(lower))
        ELSE IntStr(Val(lower)) \o <<":">> \o IntStr(Val(upper))

\* Range._repr_item(item) for an item that is not None
_repr_item(item) ==
    LET lower == item[1]
        upper == item[2]
    IN  IF IsNone(lower) THEN <<":">> \o IntStr(Val(upper))
        ELSE IF IsNone(upper) THEN IntStr(Val(lower)) \o <<":">>
        ELSE IF lower = upper THEN IntStr(Val(lower))
        ELSE IntStr(Val(lower)) \o <<":">> \o IntStr(Val(upper))

RECURSIVE JoinItems(_)
JoinItems(its) ==
    IF Len(its) = 1 THEN _repr_item(its[1])
    ELSE JoinItems(SubSeq(its, 1, Len(its) - 1)) \o <<",", " ">>
         \o _repr_item(its[Len(its)])

\* Range.__str__: "if self.items" is false for None and for the empty list
__str__(its) ==
    IF ~IsNone(its) /\ Len(Val(its)) > 0 THEN JoinItems(Val(its)) ELSE <<"None">>

\* ValidateLoop with the upper bounds excluded
RECURSIVE ValidateLoopExclusive(_, _, _, _)
ValidateLoopExclusive(its, value, item_index, is_valid) ==
    IF ~is_valid /\ item_index < Len(its)
    THEN LET lower == its[item_index + 1][1]
             upper == its[item_index + 1][2]
             hit == IF IsNone(lower) THEN value < Val(upper)
                    ELSE IF IsNone(upper) THEN value >= Val(lower)
                    ELSE value >= Val(lower) /\ value < Val(upper)
         IN  ValidateLoopExclusive(its, value, item_index + 1, hit)
    ELSE is_valid

\* the loop of Range.validate from item_index on: the final is_valid
RECURSIVE ValidateLoop(_, _, _, _)
ValidateLoop(its, value, item_index, is_valid) ==
    IF ~is_valid /\ item_index < Len(its)
    THEN LET lower == its[item_index + 1][1]
             upper == its[item_index + 1][2]
             hit == IF IsNone(lower) THEN value <= Val(upper)
                    ELSE IF IsNone(upper) THEN value >= Val(lower)
                    ELSE value >= Val(lower) /\ value <= Val(upper)
         IN  ValidateLoop(its, value, item_index + 1, hit)
    ELSE is_valid

\* Range.validate: TRUE when it returns, FALSE when it raises RangeValueError
validate(its, value) ==
    IF ~IsNone(its) THEN ValidateLoop(Val(its), value, 0, FALSE) ELSE TRUE

\* -------------------------------------------------------------- state ---
VARIABLES
    text,            \* argument text of the constructor (optional)
    default,         \* argument default of the constructor (optional)
    mode,            \* which construction this is: "first", "str", "default"
    pc,              \* "new", "loop" (line 79), "done", "failed"
    description,     \* self._description (optional)
    items,           \* self._items (optional sequence of items)
    tokens,          \* the token stream
    pos,             \* index of next_token in tokens
    lower, upper,    \* locals of the item group (optional integers)
    ellipsis_found,
    after_hyphen,
    error,           \* which InterfaceError was raised, "" for none
    saved,           \* outcome of the first construction: <<pc, items>>
    value,           \* argument of the last validate call (optional)
    valid            \* its outcome: "ok", "error", "" before any call on the range

vars == <<text, default, mode, pc, description, items, tokens, pos, lower,
          upper, ellipsis_found, after_hyphen, error, saved, value, valid>>

locals == <<lower, upper, ellipsis_found, after_hyphen>>
args == <<text, default, mode, saved>>
calls == <<value, valid>>

RECURSIVE SeqsUpTo(_)
SeqsUpTo(n) ==
    IF n = 0 THEN {<<>>}
    ELSE LET shorter == SeqsUpTo(n - 1)
         IN  shorter \cup {Append(s, c) : s \in {t \in shorter : Len(t) = n - 1},
                                         c \in Alphabet}

Texts == SeqsUpTo(MaxLen)
Defaults == {d \in SeqsUpTo(MaxDefaultLen) : Strip(d)}

\* the texts a default is given with: absent, empty, blank and not blank
TextsWithDefault == {None, Some(<<>>), Some(<<" ">>), Some(<<"1">>)}

Init ==
    /\ text \in {None} \cup {Some(t) : t \in Texts}
    /\ default \in {None} \cup
           (IF text \in TextsWithDefault THEN {Some(d) : d \in Defaults} ELSE {})
    /\ mode = "first"
    /\ pc = "new"
    /\ description = None
    /\ items = None
    /\ tokens = <<>>
    /\ pos = 1
    /\ lower = None
    /\ upper = None
    /\ ellipsis_found = FALSE
    /\ after_hyphen = FALSE
    /\ error = ""
    /\ saved = None
    /\ value = None
    /\ valid = ""

\* ------------------------------------------------- Range.__init__ -------
\* text after line 55
Normalized(t) == IF ~IsNone(t) THEN Some(Replace(Val(t))) ELSE None

\* has_text of line 57
HasText(t) == ~IsNone(t) /\ Strip(Val(t))

\* text after line 60: the text the tokenizer is given
EffectiveText(t, d) ==
    IF ~HasText(Normalized(t)) /\ ~IsNone(d) THEN d ELSE Normalized(t)

\* lines 52-78: up to the first next(tokens)
Construct ==
    /\ pc = "new"
    /\ LET t == EffectiveText(text, default)
           has_text == HasText(Normalized(text)) \/ ~IsNone(default)
       IN  IF ~has_text
           THEN /\ description' = None
                /\ items' = None
                /\ tokens' = <<>>
                /\ pc' = "done"
           ELSE /\ description' = t
                /\ items' = Some(<<>>)
                /\ tokens' = generate_tokens(Val(t))
                /\ pc' = "loop"
    /\ pos' = 1
    /\ lower' = None
    /\ upper' = None
    /\ ellipsis_found' = FALSE
    /\ after_hyphen' = FALSE
    /\ error' = ""
    /\ UNCHANGED <<args, calls>>

next_token == tokens[pos]
InGroup == pc = "loop" /\ ~is_eof_token(next_token) /\ ~is_comma_token(next_token)
AtGroupEnd == pc = "loop" /\ (is_eof_token(next_token) \/ is_comma_token(next_token))

Raise(e) ==
    /\ pc' = "failed"
    /\ error' = e
    /\ UNCHANGED <<pos, items, locals>>

\* lines 83-112: <<"", long_value>> or <<error, 0>>
LongValue(t) ==
    CASE t.type = "NUMBER" ->
           IF IsNone(IntOf(t.value)) THEN <<"number must be an integer", 0>>
           ELSE IF after_hyphen THEN <<"", -1 * Val(IntOf(t.value))>>
           ELSE <<"", Val(IntOf(t.value))>>
      [] t.type = "NAME" ->
           IF t.value \in DOMAIN NAME_TO_ASCII_CODE_MAP
           THEN <<"", NAME_TO_ASCII_CODE_MAP[t.value]>>
           ELSE <<"symbolic name must be one of", 0>>
      [] t.type = "STRING" ->
           IF StringLen(t.value) # 3
           THEN <<"text for range must contain a single character", 0>>
           ELSE <<"", Ord(t.value[1])>>

\* line 96: a number consumes the pending hyphen; a name or a string does not
HyphenAfterValue(t) == IF t.type = "NUMBER" THEN FALSE ELSE after_hyphen

\* lines 82-122 and 133: a number, a name or a quoted character
ValueToken ==
    /\ InGroup
    /\ next_token.type \in {"NAME", "NUMBER", "STRING"}
    /\ LET lv == LongValue(next_token)
       IN  IF lv[1] # "" THEN Raise(lv[1])
           ELSE IF ellipsis_found
           THEN IF IsNone(upper)
                THEN /\ upper' = Some(lv[2])
                     /\ after_hyphen' = HyphenAfterValue(next_token)
                     /\ pos' = pos + 1
                     /\ UNCHANGED <<pc, error, items, lower, ellipsis_found>>
                ELSE Raise("range must have at most lower and upper limit")
           ELSE IF IsNone(lower)
                THEN /\ lower' = Some(lv[2])
                     /\ after_hyphen' = HyphenAfterValue(next_token)
                     /\ pos' = pos + 1
                     /\ UNCHANGED <<pc, error, items, upper, ellipsis_found>>
                ELSE Raise("number must be followed by ellipsis")
    /\ UNCHANGED <<args, calls, description, tokens>>

\* lines 123-124: anything but a value after a hyphen
HyphenError ==
    /\ InGroup
    /\ next_token.type \notin {"NAME", "NUMBER", "STRING"}
    /\ after_hyphen
    /\ Raise("hyphen must be followed by number")
    /\ UNCHANGED <<args, calls, description, tokens>>

\* lines 125-126 and 133
HyphenToken ==
    /\ InGroup
    /\ next_token.type \notin {"NAME", "NUMBER", "STRING"}
    /\ ~after_hyphen
    /\ next_token.type = "OP" /\ next_token.value = <<"-">>
    /\ after_hyphen' = TRUE
    /\ pos' = pos + 1
    /\ UNCHANGED <<args, calls, description, tokens, pc, error, items, lower,
                   upper, ellipsis_found>>

\* lines 127-128 and 133
EllipsisToken ==
    /\ InGroup
    /\ next_token.type \notin {"NAME", "NUMBER", "STRING"}
    /\ ~after_hyphen
    /\ ~(next_token.type = "OP" /\ next_token.value = <<"-">>)
    /\ next_token.value \in {<<ELLIPSIS>>, <<":">>}
    /\ ellipsis_found' = TRUE
    /\ pos' = pos + 1
    /\ UNCHANGED <<args, calls, description, tokens, pc, error, items, lower,
                   upper, after_hyphen>>

\* lines 129-132
OtherToken ==
    /\ InGroup
    /\ next_token.type \notin {"NAME", "NUMBER", "STRING"}
    /\ ~after_hyphen
    /\ ~(next_token.type = "OP" /\ next_token.value = <<"-">>)
    /\ next_token.value \notin {<<ELLIPSIS>>, <<":">>}
    /\ Raise("range must be specified using integer numbers")
    /\ UNCHANGED <<args, calls, description, tokens>>

\* GroupResult with "x" handled like "x...": the item is (lower, upper)
GroupResultSingleAsOpen(lo, up, found) ==
    IF IsNone(lo)
    THEN IF IsNone(up)
         THEN IF found
              THEN <<"ellipsis must be preceded and/or succeeded by number", None>>
              ELSE <<"", None>>
         ELSE <<"", Some(<<None, up>>)>>
    ELSE IF found /\ ~IsNone(up) /\ Val(lo) > Val(up)
         THEN <<"lower range must be greater or equal to upper range", None>>
         ELSE <<"", Some(<<lo, up>>)>>

\* GroupResult with "..." handled like an interval without bounds
GroupResultEllipsisAlone(lo, up, found) ==
    IF IsNone(lo)
    THEN IF IsNone(up) /\ ~found THEN <<"", None>>
         ELSE <<"", Some(<<None, up>>)>>
    ELSE IF found
         THEN IF ~IsNone(up) /\ Val(lo) > Val(up)
              THEN <<"lower range must be greater or equal to upper range", None>>
              ELSE <<"", Some(<<lo, up>>)>>
         ELSE <<"", Some(<<lo, lo>>)>>

\* GroupResult without the comparison of lower and upper
GroupResultUnordered(lo, up, found) ==
    IF IsNone(lo)
    THEN IF IsNone(up)
         THEN IF found
              THEN <<"ellipsis must be preceded and/or succeeded by number", None>>
              ELSE <<"", None>>
         ELSE <<"", Some(<<None, up>>)>>
    ELSE IF found THEN <<"", Some(<<lo, up>>)>>
         ELSE <<"", Some(<<lo, lo>>)>>

\* lines 139-160: <<"", result>> with result optional, or <<error, None>>
GroupResult(lo, up, found) ==
    IF IsNone(lo)
    THEN IF IsNone(up)
         THEN IF found
              THEN <<"ellipsis must be preceded and/or succeeded by number", None>>
              ELSE <<"", None>>
         ELSE <<"", Some(<<None, up>>)>>
    ELSE IF found
         THEN IF ~IsNone(up) /\ Val(lo) > Val(up)
              THEN <<"lower range must be greater or equal to upper range", None>>
              ELSE <<"", Some(<<lo, up>>)>>
         ELSE <<"", Some(<<lo, lo>>)>>

\* lines 162-163: the new item overlaps an item accepted before
OverlapsEarlier(its, result) ==
    \E i \in 1..Len(its) : _items_overlap(its[i], result)

\* lines 135-169, and lines 74-78 of the next round when a comma ended the group
EndGroup ==
    /\ AtGroupEnd
    /\ LET r == GroupResult(lower, upper, ellipsis_found)
       IN  IF after_hyphen THEN Raise("hyphen at end must be followed by number")
           ELSE IF r[1] # "" THEN Raise(r[1])
           ELSE IF ~IsNone(r[2]) /\ OverlapsEarlier(Val(items), Val(r[2]))
           THEN Raise("range items must not overlap")
           ELSE /\ items' = IF IsNone(r[2]) THEN items
                            ELSE Some(Append(Val(items), Val(r[2])))
                /\ error' = error
                /\ IF is_eof_token(next_token)
                   THEN /\ pc' = "done"
                        /\ UNCHANGED <<pos, locals>>
                   ELSE /\ pc' = "loop"
                        /\ pos' = pos + 1
                        /\ lower' = None
                        /\ upper' = None
                        /\ ellipsis_found' = FALSE
                        /\ after_hyphen' = FALSE
    /\ UNCHANGED <<args, calls, description, tokens>>

\* ------------------------------------------------- Range.validate -------
\* the bounds of the items
BoundsOf(its) ==
    IF IsNone(its) THEN {}
    ELSE {Val(b) : b \in {Val(its)[i][k] : i \in 1..Len(Val(its)), k \in 1..2}
                          \ {None}}

\* the values validate is called with
Values(its) ==
    (-ProbeSpan..ProbeSpan) \cup {b + d : b \in BoundsOf(its), d \in -1..1}

Validate ==
    /\ pc = "done"
    /\ \E v \in Values(items) :
          /\ value' = Some(v)
          /\ valid' = IF validate(items, v) THEN "ok" ELSE "error"
    /\ UNCHANGED <<args, pc, description, items, tokens, pos, locals, error>>

\* ---------------------------------------------- further constructions ---
Outcome == <<pc, IF pc = "done" THEN items ELSE None>>

\* Range(str(r)) for the range r just constructed
CompileStr ==
    /\ pc = "done"
    /\ mode = "first"
    /\ saved' = Some(Outcome)
    /\ text' = Some(__str__(items))
    /\ default' = None
    /\ mode' = "str"
    /\ pc' = "new"
    /\ value' = None
    /\ valid' = ""
    /\ UNCHANGED <<description, items, tokens, pos, locals, error>>

\* Range(default) after Range(text, default) with an absent or blank text
CompileDefault ==
    /\ pc \in {"done", "failed"}
    /\ mode = "first"
    /\ ~IsNone(default)
    /\ ~HasText(text)
    /\ saved' = Some(Outcome)
    /\ text' = default
    /\ default' = None
    /\ mode' = "default"
    /\ pc' = "new"
    /\ value' = None
    /\ valid' = ""
    /\ UNCHANGED <<description, items, tokens, pos, locals, error>>

Next ==
    \/ Construct
    \/ ValueToken
    \/ HyphenError
    \/ HyphenToken
    \/ EllipsisToken
    \/ OtherToken
    \/ EndGroup
    \/ Validate
    \/ CompileStr
    \/ CompileDefault

Spec == Init /\ [][Next]_vars


\* ============================================================ claims ====
\* What the claims speak of, stated on intervals and on the grammar and not
\* by the code's accumulators.

\* value lies in the interval the item denotes
Contains(item, v) ==
    /\ IsNone(item[1]) \/ Val(item[1]) <= v
    /\ IsNone(item[2]) \/ v <= Val(item[2])

\* the two intervals intersect, an absent bound counting as infinite
Intersect(a, b) ==
    /\ IsNone(a[1]) \/ IsNone(b[2]) \/ Val(a[1]) <= Val(b[2])
    /\ IsNone(b[1]) \/ IsNone(a[2]) \/ Val(b[1]) <= Val(a[2])

PairwiseDisjoint(its) ==
    \A i, j \in 1..Len(its) : i < j => ~Intersect(its[i], its[j])

Member(its, v) == \E i \in 1..Len(its) : Contains(its[i], v)

\* the tokens before ENDMARKER, split at the commas
RECURSIVE Groups(_)
Groups(toks) ==
    LET commas == {i \in 1..Len(toks) : is_comma_token(toks[i]) \/ is_eof_token(toks[i])}
        first == CHOOSE i \in commas : \A j \in commas : i <= j
    IN  IF is_eof_token(toks[first]) THEN <<SubSeq(toks, 1, first - 1)>>
        ELSE <<SubSeq(toks, 1, first - 1)>> \o Groups(SubSeq(toks, first + 1, Len(toks)))

IsEllipsisToken(t) == t.type \in {"OP", "ERRORTOKEN"} /\ t.value \in {<<ELLIPSIS>>, <<":">>}
IsHyphenToken(t) == t.type = "OP" /\ t.value = <<"-">>
IsIntToken(t) == t.type = "NUMBER" /\ \A i \in 1..Len(t.value) : t.value[i] \in Digits

\* value := ['-'] number | name | quoted-char: the value, None when g is no value
GrammarValue(g) ==
    IF Len(g) = 1 /\ IsIntToken(g[1]) THEN Some(Decimal(g[1].value))
    ELSE IF Len(g) = 2 /\ IsHyphenToken(g[1]) /\ IsIntToken(g[2])
         THEN Some(0 - Decimal(g[2].value))
    ELSE IF Len(g) = 1 /\ g[1].type = "NAME" /\ g[1].value = <<"cr">> THEN Some(13)
    ELSE IF Len(g) = 1 /\ g[1].type = "STRING" /\ g[1].value = <<"'A'">> THEN Some(65)
    ELSE None

\* item := value [ellipsis [value]] | ellipsis value: the interval of the
\* group, None when the group is not of this form or has lower > upper
GrammarItem(g) ==
    LET es == {i \in 1..Len(g) : IsEllipsisToken(g[i])}
    IN  IF es = {} THEN
            IF IsNone(GrammarValue(g)) THEN None
            ELSE Some(<<GrammarValue(g), GrammarValue(g)>>)
        ELSE IF Cardinality(es) > 1 THEN None
        ELSE LET k == CHOOSE i \in es : TRUE
                 l == GrammarValue(SubSeq(g, 1, k - 1))
                 u == GrammarValue(SubSeq(g, k + 1, Len(g)))
             IN  IF k = 1 /\ Len(g) = 1 THEN None
                 ELSE IF k = 1 THEN (IF IsNone(u) THEN None ELSE Some(<<None, u>>))
                 ELSE IF k = Len(g) THEN (IF IsNone(l) THEN None ELSE Some(<<l, None>>))
                 ELSE IF IsNone(l) \/ IsNone(u) THEN None
                 ELSE IF Val(l) > Val(u) THEN None
                 ELSE Some(<<l, u>>)

WellFormed(toks) == \A i \in 1..Len(Groups(toks)) : ~IsNone(GrammarItem(Groups(toks)[i]))
GrammarItems(toks) == [i \in 1..Len(Groups(toks)) |-> Val(GrammarItem(Groups(toks)[i]))]

Finished == pc \in {"done", "failed"}
Blank(t) == IsNone(t) \/ \A i \in 1..Len(Val(t)) : Val(t)[i] = " "
SavedItems == Val(saved)[2]
HyphenErrors == {"hyphen must be followed by number",
                 "hyphen at end must be followed by number"}

\* C1: the items of every successfully compiled range are pairwise
\* non-overlapping, two items overlapping when their intervals intersect.
C1_ItemsNeverOverlap ==
    pc = "done" /\ ~IsNone(items) => PairwiseDisjoint(Val(items))

\* C2: on a compiled range with items, validate succeeds exactly when the
\* value lies in at least one item, whatever was validated before, and it
\* leaves items and description unchanged.
C2_ValidateIsMembership ==
    /\ [](valid # "" /\ ~IsNone(items) => (valid = "ok" <=> Member(Val(items), Val(value))))
    /\ [][(pc = "done" /\ pc' = "done")
            => (items' = items /\ description' = description)]_vars

C2_Witness ==
    /\ pc = "done" /\ ~IsNone(items) /\ Len(Val(items)) >= 2
    /\ valid = "ok"
    /\ ~Contains(Val(items)[1], Val(value))
    /\ Contains(Val(items)[2], Val(value))

C4_BlankIsUnrestricted ==
    (mode = "first" /\ pc # "new" /\ Blank(text) /\ IsNone(default))
    => (pc = "done" /\ IsNone(items) /\ IsNone(description) /\ valid # "error")

C4_Witness ==
    /\ mode = "first" /\ text = Some(<<" ", " ">>) /\ IsNone(default)
    /\ pc = "done" /\ valid = "ok" /\ value = Some(-2)

\* the two ranges accept the same values, among those next to any bound
SameMembership(a, b) ==
    \A v \in Values(a) \cup Values(b) : validate(a, v) = validate(b, v)

\* C5 as stated: compiling str(r) succeeds for every compiled range r and
\* gives a range that accepts the same values.
C5_RoundTripOfEveryRange ==
    (mode = "str" /\ Finished) => (pc = "done" /\ SameMembership(items, SavedItems))

\* C5 amended: compiling str(r) succeeds and gives a range that accepts the
\* same values, for every compiled range r that has at least one item.
C5_RoundTripOfRangesWithItems ==
    (mode = "str" /\ Finished /\ ~IsNone(SavedItems) /\ Len(Val(SavedItems)) > 0)
    => (pc = "done" /\ SameMembership(items, SavedItems))

C5_Witness ==
    /\ mode = "str" /\ pc = "done" /\ ~IsNone(SavedItems)
    /\ Len(Val(SavedItems)) = 2
    /\ Val(SavedItems)[1] = <<Some(1), Some(1)>>
    /\ Val(SavedItems)[2] = <<Some(2), None>>
    /\ items = SavedItems

\* C6: a successful compile never gives items that is present and empty:
\* items is absent exactly when the effective text is blank, and holds at
\* least one interval otherwise.
C6_ItemsNeverEmpty ==
    pc = "done" =>
        /\ IsNone(items) <=> Blank(EffectiveText(text, default))
        /\ ~IsNone(items) => Len(Val(items)) >= 1

\* C7: with an absent or blank text, compiling with default D has the same
\* outcome as compiling D as the text.
C7_DefaultIsSubstituted ==
    (mode = "default" /\ Finished) => Outcome = Val(saved)

\* C8: every item of a compiled range with both bounds has lower <= upper,
\* and a group that ends with lower > upper fails with the ordering error
\* without adding an item.
C8_LowerNotAboveUpper ==
    /\ [](pc = "done" /\ ~IsNone(items) =>
            \A i \in 1..Len(Val(items)) :
                LET item == Val(items)[i]
                IN  ~IsNone(item[1]) /\ ~IsNone(item[2]) => Val(item[1]) <= Val(item[2]))
    /\ [][(/\ AtGroupEnd /\ ~after_hyphen
           /\ ~IsNone(lower) /\ ~IsNone(upper) /\ Val(lower) > Val(upper))
          => (/\ pc' = "failed"
              /\ error' = "lower range must be greater or equal to upper range"
              /\ items' = items)]_vars

C8_Witness ==
    /\ pc = "failed"
    /\ error = "lower range must be greater or equal to upper range"
    /\ lower = Some(2) /\ upper = Some(-1)

\* C9: every group of a text that compiles is empty or of the grammar
\* item := value [ellipsis [value]] | ellipsis value, so it has at most two
\* values and at most one ellipsis token.
C9_GroupsFollowGrammar ==
    (pc = "done" /\ ~IsNone(description)) =>
        \A i \in 1..Len(Groups(tokens)) :
            Len(Groups(tokens)[i]) = 0 \/ ~IsNone(GrammarItem(Groups(tokens)[i]))

\* C10: when a hyphen is pending and the next token is no number (a name, a
\* quoted character, an ellipsis, a hyphen, a comma or the end of input), the
\* compile fails at that token with the hyphen error; and no group starts
\* with a hyphen pending.
C10_HyphenNeedsNumber ==
    [][/\ (pc = "loop" /\ after_hyphen /\ next_token.type # "NUMBER")
          => (pc' = "failed" /\ error' \in HyphenErrors)
       /\ (AtGroupEnd /\ pc' = "loop") => ~after_hyphen']_vars

\* C11: in every state of the compile, upper is set only if ellipsis_found
\* is true (the assertion of line 149), and the item a group resolves to and
\* every item of items has at least one bound (the assertions of lines 195
\* and 277): no assertion can fail.
C11_AssertionsNeverFail ==
    /\ ~IsNone(upper) => ellipsis_found
    /\ ~IsNone(items) => \A i \in 1..Len(Val(items)) : Val(items)[i] # <<None, None>>
    /\ (AtGroupEnd /\ ~after_hyphen)
          => GroupResult(lower, upper, ellipsis_found)[2] # Some(<<None, None>>)

C11_Witness ==
    /\ pc = "done" /\ mode = "first"
    /\ IsNone(lower) /\ upper = Some(1) /\ ellipsis_found
    /\ items = Some(<< <<None, Some(1)>> >>)
    /\ valid = "ok" /\ value = Some(-2)

=============================================================================
